---- MODULE Spec2Model ----
(***************************************************************************)
(* Strobe-triggered payload transmission engine of tm_test.py and          *)
(* tm_test_controlled.py: the GPIO edge callback feeds a queue, a worker   *)
(* thread turns every queued event into one 4-byte frame on the serial     *)
(* port, and the main thread supervises startup and shutdown.              *)
(***************************************************************************)
EXTENDS Integers, Sequences, FiniteSets, TLC

VARIABLES
    script,              \* which program runs: "tm_test" or "tm_test_controlled"
    MODE,                \* transmission mode ("none" in tm_test.py)
    strobe_queue,        \* SimpleQueue of time.monotonic() stamps
    total_strobe_count,
    payload_value,
    byte_lane_index,
    stop_event,
    gpio,                \* RPi.GPIO state: numbering mode, channel setup, edge detection
    ser_open,            \* the serial port is open
    wire,                \* the last 4-byte frame written to the serial port
    writes,              \* number of frames written to the serial port
    pc,                  \* position of the main thread and of the worker thread
    attempts,            \* per thread: loop index of initialize_gpio's retry loop
    edges,               \* number of rising edges delivered to on_strobe
    missed,              \* rising edges that found no edge detection while the engine ran
    transient_faults,    \* 'channel not set up' faults raised by the worker's wait
    error,               \* per thread: the exception that ended it ("none" if none)
    exit_status,         \* process exit status
    drained_after_stop,  \* events the worker dequeued while stop_event was set
    raw,                 \* uart_reader.py: the bytes of the last ser.read
    ints                 \* uart_reader.py: what decode_ints returned for raw

vars == <<script, MODE, strobe_queue, total_strobe_count, payload_value,
          byte_lane_index, stop_event, gpio, ser_open, wire, writes, pc,
          attempts, edges, missed, transient_faults, error, exit_status,
          drained_after_stop, raw, ints>>

(***************************************************************************)
(* Bounds of the model.                                                    *)
(***************************************************************************)
MaxEdges == 1024      \* rising edges delivered in one run (4 counter cycles are 1020)
MaxQueue == 2         \* events waiting in strobe_queue at once
MaxMissed == 1        \* missed edges that are counted
MaxFaults == 1        \* transient faults in one run
MaxFaultAt == 300     \* a transient fault arrives while at most this many events are consumed
MaxLiveEdges == 3     \* rising edges in the runs checked for termination
MaxRead == 8          \* uart_reader.py: bytes returned by one ser.read

(***************************************************************************)
(* Program constants.                                                      *)
(***************************************************************************)
retries == 20

Scripts == {"tm_test", "tm_test_controlled"}
Modes == {"byte0", "scan", "all"}
Threads == {"main", "worker"}
NoFrame == <<>>

(***************************************************************************)
(* Python integers of any size, as little-endian sequences of base-256     *)
(* digits without leading zeros (0 is <<>>), with the operations the       *)
(* programs apply to them: << by a whole number of bytes, | and            *)
(* int.to_bytes(4, byteorder='little').                                    *)
(***************************************************************************)
RECURSIVE Digits(_)
Digits(v) == IF v = 0 THEN <<>> ELSE <<v % 256>> \o Digits(v \div 256)

\* d << n, for n a multiple of 8 (the programs shift by 8, 16, 24 and lane * 8)
ShiftLeft(d, n) == IF d = <<>> THEN <<>> ELSE [i \in 1..(n \div 8) |-> 0] \o d

RECURSIVE ByteOr(_, _)
ByteOr(a, b) ==
    IF a = 0 THEN b
    ELSE IF b = 0 THEN a
    ELSE (IF (a % 2 = 1) \/ (b % 2 = 1) THEN 1 ELSE 0) + 2 * ByteOr(a \div 2, b \div 2)

DigitAt(d, i) == IF i <= Len(d) THEN d[i] ELSE 0

BitOr(a, b) ==
    [i \in 1..(IF Len(a) > Len(b) THEN Len(a) ELSE Len(b)) |->
        ByteOr(DigitAt(a, i), DigitAt(b, i))]

\* int.to_bytes(4, byteorder='little'): OverflowError when the value needs more
\* than 4 bytes
Fits4Bytes(d) == Len(d) <= 4
\* variant: byteorder='big'
to_bytes_big(d) == [i \in 1..4 |-> DigitAt(d, 5 - i)]
to_bytes_little(d) == [i \in 1..4 |-> DigitAt(d, i)]

(***************************************************************************)
(* Payload generator.                                                      *)
(***************************************************************************)
\* variant: the counter placed in byte lane 1
get_payload_byte1(val) == ShiftLeft(val, 8)

get_payload_byte0(val) == val

\* variant: lanes counted from the most significant byte
get_payload_scan_msb(val, lane) == ShiftLeft(val, (3 - lane) * 8)

\* variant: the counter placed one lane too high
get_payload_scan_next_lane(val, lane) == ShiftLeft(val, ((lane + 1) % 4) * 8)

get_payload_scan(val, lane) == ShiftLeft(val, lane * 8)

\* variant: the most significant lane left out
get_payload_all_three_lanes(val) ==
    BitOr(BitOr(val, ShiftLeft(val, 8)), ShiftLeft(val, 16))

get_payload_all(val) ==
    BitOr(BitOr(BitOr(val, ShiftLeft(val, 8)), ShiftLeft(val, 16)), ShiftLeft(val, 24))

\* val_32 as the worker computes it (tm_test.py sends payload_value itself)
val_32 ==
    IF script = "tm_test" THEN Digits(payload_value)
    ELSE IF MODE = "byte0" THEN get_payload_byte0(Digits(payload_value))
    ELSE IF MODE = "scan" THEN get_payload_scan(Digits(payload_value), byte_lane_index)
    ELSE IF MODE = "all" THEN get_payload_all(Digits(payload_value))
    ELSE <<>>

(***************************************************************************)
(* RPi.GPIO as the programs use it.                                        *)
(***************************************************************************)
GpioClean == [mode |-> FALSE, setup |-> FALSE, detect |-> FALSE]

\* GPIO.cleanup(): releases the channels, removes every edge detection and
\* forgets the numbering mode
cleanup_gpio(g) == GpioClean

\* GPIO.setmode(GPIO.BCM)
setmode(g) == [g EXCEPT !.mode = TRUE]

(***************************************************************************)
(* uart_reader.py: the integer interpretations of a received buffer.       *)
(* Integers are sign and magnitude, the magnitude in base-256 digits as    *)
(* above.                                                                  *)
(***************************************************************************)
\* byte values a read delivers: one below and one above the sign bit
SampleBytes == {1, 200}

RECURSIVE BuffersOfLen(_)
BuffersOfLen(n) ==
    IF n = 0 THEN {<<>>}
    ELSE {Append(b, x) : b \in BuffersOfLen(n - 1), x \in SampleBytes}

\* what ser.read(READ_CHUNK) can return when data arrived
ReadBuffers == UNION {BuffersOfLen(n) : n \in 1..MaxRead}

\* widths = {1: 'B', 2: 'H', 4: 'I', 8: 'Q'}
widths == {1, 2, 4, 8}

RECURSIVE StripZeros(_)
StripZeros(d) ==
    IF d = <<>> THEN <<>>
    ELSE IF d[Len(d)] = 0 THEN StripZeros(SubSeq(d, 1, Len(d) - 1)) ELSE d

Reverse(d) == [i \in 1..Len(d) |-> d[Len(d) + 1 - i]]

RECURSIVE AddOne(_)
AddOne(d) ==
    IF d = <<>> THEN <<>>
    ELSE IF d[1] < 255 THEN <<d[1] + 1>> \o Tail(d)
    ELSE <<0>> \o AddOne(Tail(d))

\* struct codes B H I Q on little-endian bytes
unpack_unsigned(b) == [neg |-> FALSE, mag |-> StripZeros(b)]

\* struct codes b h i q on little-endian bytes: two's complement
unpack_signed(b) ==
    IF b[Len(b)] >= 128
    THEN [neg |-> TRUE, mag |-> StripZeros(AddOne([i \in 1..Len(b) |-> 255 - b[i]]))]
    ELSE [neg |-> FALSE, mag |-> StripZeros(b)]

\* struct.unpack_from('<' + code, chunk)[0] and struct.unpack_from('>' + code, chunk)[0]
unpack_from(kind, order, chunk) ==
    LET b == IF order = "LE" THEN chunk ELSE Reverse(chunk)
    IN  IF kind = "uint" THEN unpack_unsigned(b) ELSE unpack_signed(b)

\* the dictionary decode_ints returns; the key <<"uint", 16, "LE">> is 'uint16_LE'
decode_ints(data) ==
    LET n == Len(data)
        sizes == {size \in widths : n >= size}
    IN  [k \in {"uint", "int"} \X {size * 8 : size \in sizes} \X {"LE", "BE"} |->
            unpack_from(k[1], k[3], SubSeq(data, 1, k[2] \div 8))]

\* out = {}
NoInts == [k \in {} |-> 0]

Init ==
    /\ script \in Scripts
    /\ MODE \in (IF script = "tm_test" THEN {"none"} ELSE Modes)
    /\ strobe_queue = <<>>
    /\ total_strobe_count = 0
    /\ payload_value = 1
    /\ byte_lane_index = 0
    /\ stop_event = FALSE
    /\ gpio = GpioClean
    /\ ser_open = FALSE
    /\ wire = NoFrame
    /\ writes = 0
    /\ pc = [t \in Threads |-> IF t = "main" THEN "open_serial" ELSE "idle"]
    /\ attempts = [t \in Threads |-> 0]
    /\ edges = 0
    /\ missed = 0
    /\ transient_faults = 0
    /\ error = [t \in Threads |-> "none"]
    /\ exit_status = -1
    /\ drained_after_stop = 0
    /\ raw = <<>>
    /\ ints = NoInts

(***************************************************************************)
(* Edge source: the GPIO library calls on_strobe once per rising edge      *)
(* while edge detection is registered on the pin.                          *)
(***************************************************************************)
\* time.monotonic() at the next rising edge
now == edges + missed + 1

\* variant: an edge that finds an event still waiting is not enqueued
on_strobe_drops_when_busy ==
    /\ gpio.detect
    /\ edges < MaxEdges
    /\ Len(strobe_queue) < MaxQueue
    /\ strobe_queue' = IF strobe_queue = <<>> THEN <<now>> ELSE strobe_queue
    /\ edges' = edges + 1
    /\ UNCHANGED <<script, MODE, total_strobe_count, payload_value, byte_lane_index,
                   stop_event, gpio, ser_open, wire, writes, pc, attempts, missed,
                   transient_faults, error, exit_status, drained_after_stop, raw, ints>>

\* on_strobe(channel): strobe_queue.put(time.monotonic())
on_strobe ==
    /\ gpio.detect
    /\ edges < MaxEdges
    /\ Len(strobe_queue) < MaxQueue
    /\ strobe_queue' = Append(strobe_queue, now)
    /\ edges' = edges + 1
    /\ UNCHANGED <<script, MODE, total_strobe_count, payload_value, byte_lane_index,
                   stop_event, gpio, ser_open, wire, writes, pc, attempts, missed,
                   transient_faults, error, exit_status, drained_after_stop, raw, ints>>

\* a rising edge while the engine runs (the main thread supervises, the worker
\* is in its loop outside initialize_gpio) and no edge detection is registered:
\* no callback is invoked
missed_edge ==
    /\ ~gpio.detect
    /\ pc["main"] = "join_loop"
    /\ pc["worker"] \in {"loop", "get", "send"}
    /\ ~stop_event
    /\ missed < MaxMissed
    /\ missed' = missed + 1
    /\ UNCHANGED <<script, MODE, strobe_queue, total_strobe_count, payload_value,
                   byte_lane_index, stop_event, gpio, ser_open, wire, writes, pc,
                   attempts, edges, transient_faults, error, exit_status,
                   drained_after_stop, raw, ints>>

(***************************************************************************)
(* initialize_gpio(pin, retries=20), called by the main thread at startup  *)
(* and by the worker thread after a transient fault.                       *)
(***************************************************************************)
InitReturn(t) == IF t = "main" THEN "add_event_detect" ELSE "loop"
InitRaise(t) == IF t = "main" THEN "atexit" ELSE "dead"

\* variant: one attempt too many
retry_left_one_more(n) == n <= retries

\* the retry loop goes on while the loop index is below retries
retry_left(n) == n < retries

\* the handle after a failed attempt: cleanup_gpio(); sleep; GPIO.setmode(GPIO.BCM)
reinitialize(g) == setmode(cleanup_gpio(g))

\* cleanup_gpio(); GPIO.setwarnings(False); GPIO.setmode(GPIO.BCM); last_error = None
initialize_gpio_begin(t) ==
    /\ pc[t] = "init_begin"
    /\ gpio' = setmode(cleanup_gpio(gpio))
    /\ attempts' = [attempts EXCEPT ![t] = 0]
    /\ pc' = [pc EXCEPT ![t] = "init_try"]
    /\ UNCHANGED <<script, MODE, strobe_queue, total_strobe_count, payload_value,
                   byte_lane_index, stop_event, ser_open, wire, writes, edges, missed,
                   transient_faults, error, exit_status, drained_after_stop, raw, ints>>

\* GPIO.setup(...) succeeds: return
initialize_gpio_setup_ok(t) ==
    /\ pc[t] = "init_try"
    /\ retry_left(attempts[t])
    /\ gpio.mode
    /\ gpio' = [gpio EXCEPT !.setup = TRUE]
    /\ attempts' = [attempts EXCEPT ![t] = 0]
    /\ pc' = [pc EXCEPT ![t] = InitReturn(t)]
    /\ UNCHANGED <<script, MODE, strobe_queue, total_strobe_count, payload_value,
                   byte_lane_index, stop_event, ser_open, wire, writes, edges, missed,
                   transient_faults, error, exit_status, drained_after_stop, raw, ints>>

\* GPIO.setup(...) raises: cleanup, sleep, setmode, next attempt
initialize_gpio_setup_fails(t) ==
    /\ pc[t] = "init_try"
    /\ retry_left(attempts[t])
    /\ gpio' = reinitialize(gpio)
    /\ attempts' = [attempts EXCEPT ![t] = attempts[t] + 1]
    /\ UNCHANGED <<script, MODE, strobe_queue, total_strobe_count, payload_value,
                   byte_lane_index, stop_event, ser_open, wire, writes, pc, edges,
                   missed, transient_faults, error, exit_status, drained_after_stop,
                   raw, ints>>

\* the loop is exhausted: raise RuntimeError("Failed to setup GPIO ..."), which
\* nothing catches in either thread
initialize_gpio_raise(t) ==
    /\ pc[t] = "init_try"
    /\ ~retry_left(attempts[t])
    /\ error' = [error EXCEPT ![t] = "setup_exhausted"]
    /\ pc' = [pc EXCEPT ![t] = InitRaise(t)]
    /\ UNCHANGED <<script, MODE, strobe_queue, total_strobe_count, payload_value,
                   byte_lane_index, stop_event, gpio, ser_open, wire, writes, attempts,
                   edges, missed, transient_faults, exit_status, drained_after_stop,
                   raw, ints>>

(***************************************************************************)
(* Startup of the main thread.                                             *)
(***************************************************************************)
\* ser = serial.Serial(...); atexit.register(cleanup_gpio); initialize_gpio(STROBE_PIN)
open_serial ==
    /\ pc["main"] = "open_serial"
    /\ ser_open' = TRUE
    /\ pc' = [pc EXCEPT !["main"] = "init_begin"]
    /\ UNCHANGED <<script, MODE, strobe_queue, total_strobe_count, payload_value,
                   byte_lane_index, stop_event, gpio, wire, writes, attempts, edges,
                   missed, transient_faults, error, exit_status, drained_after_stop,
                   raw, ints>>

\* serial.Serial(...) raises: the process ends before anything is registered
open_serial_fails ==
    /\ pc["main"] = "open_serial"
    /\ error' = [error EXCEPT !["main"] = "serial"]
    /\ exit_status' = 1
    /\ pc' = [pc EXCEPT !["main"] = "exited"]
    /\ UNCHANGED <<script, MODE, strobe_queue, total_strobe_count, payload_value,
                   byte_lane_index, stop_event, gpio, ser_open, wire, writes, attempts,
                   edges, missed, transient_faults, drained_after_stop, raw, ints>>

\* GPIO.add_event_detect(STROBE_PIN, GPIO.RISING, callback=on_strobe)
add_event_detect ==
    /\ pc["main"] = "add_event_detect"
    /\ gpio.setup
    /\ gpio' = [gpio EXCEPT !.detect = TRUE]
    /\ pc' = [pc EXCEPT !["main"] = "start_worker"]
    /\ UNCHANGED <<script, MODE, strobe_queue, total_strobe_count, payload_value,
                   byte_lane_index, stop_event, ser_open, wire, writes, attempts, edges,
                   missed, transient_faults, error, exit_status, drained_after_stop,
                   raw, ints>>

\* GPIO.add_event_detect raises RuntimeError: unhandled at module level
add_event_detect_fails ==
    /\ pc["main"] = "add_event_detect"
    /\ error' = [error EXCEPT !["main"] = "add_event_detect"]
    /\ pc' = [pc EXCEPT !["main"] = "atexit"]
    /\ UNCHANGED <<script, MODE, strobe_queue, total_strobe_count, payload_value,
                   byte_lane_index, stop_event, gpio, ser_open, wire, writes, attempts,
                   edges, missed, transient_faults, exit_status, drained_after_stop,
                   raw, ints>>

\* worker = threading.Thread(target=strobe_worker, daemon=True); worker.start()
start_worker ==
    /\ pc["main"] = "start_worker"
    /\ pc' = [pc EXCEPT !["main"] = "join_loop", !["worker"] = "loop"]
    /\ UNCHANGED <<script, MODE, strobe_queue, total_strobe_count, payload_value,
                   byte_lane_index, stop_event, gpio, ser_open, wire, writes, attempts,
                   edges, missed, transient_faults, error, exit_status,
                   drained_after_stop, raw, ints>>

(***************************************************************************)
(* strobe_worker: the worker thread's loop.                                *)
(***************************************************************************)
\* payload_value += 1; if payload_value > 255: payload_value = 1
counter_wraps(v) == v + 1 > 255

\* variant: the counter wraps to 0
advance_payload_to_zero(v) == IF counter_wraps(v) THEN 0 ELSE v + 1

advance_payload(v) == IF counter_wraps(v) THEN 1 ELSE v + 1

\* variant: the lane advances on a wrap in every mode
advance_lane_any_mode(v, lane) == IF counter_wraps(v) THEN (lane + 1) % 4 ELSE lane

\* on a wrap, in scan mode: byte_lane_index = (byte_lane_index + 1) % 4
advance_lane(v, lane) ==
    IF counter_wraps(v) /\ script = "tm_test_controlled" /\ MODE = "scan"
    THEN (lane + 1) % 4
    ELSE lane

\* variant: while True, the cancellation flag is never read
strobe_worker_loop_forever ==
    /\ pc["worker"] = "loop"
    /\ pc' = [pc EXCEPT !["worker"] = "get"]
    /\ UNCHANGED <<script, MODE, strobe_queue, total_strobe_count, payload_value,
                   byte_lane_index, stop_event, gpio, ser_open, wire, writes, attempts,
                   edges, missed, transient_faults, error, exit_status,
                   drained_after_stop, raw, ints>>

\* while not stop_event.is_set():
strobe_worker_loop ==
    /\ pc["worker"] = "loop"
    /\ pc' = [pc EXCEPT !["worker"] = IF stop_event THEN "done" ELSE "get"]
    /\ UNCHANGED <<script, MODE, strobe_queue, total_strobe_count, payload_value,
                   byte_lane_index, stop_event, gpio, ser_open, wire, writes, attempts,
                   edges, missed, transient_faults, error, exit_status,
                   drained_after_stop, raw, ints>>

\* variant: the dequeued event is counted only while the counter has not wrapped
strobe_worker_get_miscounts ==
    /\ pc["worker"] = "get"
    /\ strobe_queue # <<>>
    /\ strobe_queue' = Tail(strobe_queue)
    /\ total_strobe_count' = IF payload_value = 1 /\ total_strobe_count > 0
                             THEN 1 ELSE total_strobe_count + 1
    /\ drained_after_stop' = drained_after_stop + (IF stop_event THEN 1 ELSE 0)
    /\ pc' = [pc EXCEPT !["worker"] = "send"]
    /\ UNCHANGED <<script, MODE, payload_value, byte_lane_index, stop_event, gpio,
                   ser_open, wire, writes, attempts, edges, missed, transient_faults,
                   error, exit_status, raw, ints>>

\* strobe_queue.get(timeout=0.5) returns an event; total_strobe_count += 1
strobe_worker_get ==
    /\ pc["worker"] = "get"
    /\ strobe_queue # <<>>
    /\ strobe_queue' = Tail(strobe_queue)
    /\ total_strobe_count' = total_strobe_count + 1
    /\ drained_after_stop' = drained_after_stop + (IF stop_event THEN 1 ELSE 0)
    /\ pc' = [pc EXCEPT !["worker"] = "send"]
    /\ UNCHANGED <<script, MODE, payload_value, byte_lane_index, stop_event, gpio,
                   ser_open, wire, writes, attempts, edges, missed, transient_faults,
                   error, exit_status, raw, ints>>

\* variant: get() without a timeout, the wait on an empty queue never ends
strobe_worker_empty_blocks ==
    /\ pc["worker"] = "get"
    /\ strobe_queue = <<>>
    /\ FALSE
    /\ UNCHANGED vars

\* the wait ends after 0.5 s with no event: except Empty: continue
strobe_worker_empty ==
    /\ pc["worker"] = "get"
    /\ strobe_queue = <<>>
    /\ pc' = [pc EXCEPT !["worker"] = "loop"]
    /\ UNCHANGED <<script, MODE, strobe_queue, total_strobe_count, payload_value,
                   byte_lane_index, stop_event, gpio, ser_open, wire, writes, attempts,
                   edges, missed, transient_faults, error, exit_status,
                   drained_after_stop, raw, ints>>

\* variant: the fault is handled after the event has been counted
strobe_worker_transient_counts ==
    /\ pc["worker"] = "get"
    /\ transient_faults < MaxFaults
    /\ total_strobe_count <= MaxFaultAt
    /\ transient_faults' = transient_faults + 1
    /\ total_strobe_count' = total_strobe_count + 1
    /\ pc' = [pc EXCEPT !["worker"] = "init_begin"]
    /\ UNCHANGED <<script, MODE, strobe_queue, payload_value, byte_lane_index,
                   stop_event, gpio, ser_open, wire, writes, attempts, edges, missed,
                   error, exit_status, drained_after_stop, raw, ints>>

\* the wait raises RuntimeError('... setup() the GPIO channel first'):
\* initialize_gpio(STROBE_PIN); continue
strobe_worker_transient ==
    /\ pc["worker"] = "get"
    /\ transient_faults < MaxFaults
    /\ total_strobe_count <= MaxFaultAt
    /\ transient_faults' = transient_faults + 1
    /\ pc' = [pc EXCEPT !["worker"] = "init_begin"]
    /\ UNCHANGED <<script, MODE, strobe_queue, total_strobe_count, payload_value,
                   byte_lane_index, stop_event, gpio, ser_open, wire, writes, attempts,
                   edges, missed, error, exit_status, drained_after_stop, raw, ints>>

\* the wait raises another RuntimeError: raise
strobe_worker_raise ==
    /\ pc["worker"] = "get"
    /\ error' = [error EXCEPT !["worker"] = "runtime_error"]
    /\ pc' = [pc EXCEPT !["worker"] = "dead"]
    /\ UNCHANGED <<script, MODE, strobe_queue, total_strobe_count, payload_value,
                   byte_lane_index, stop_event, gpio, ser_open, wire, writes, attempts,
                   edges, missed, transient_faults, exit_status, drained_after_stop,
                   raw, ints>>

\* val_32.to_bytes(4, 'little'); ser.write(data_bytes); print; advance the counter.
\* to_bytes raises OverflowError on a value of more than 4 bytes and ser.write
\* raises on a closed port: either ends the thread
strobe_worker_send ==
    /\ pc["worker"] = "send"
    /\ IF ~Fits4Bytes(val_32)
       THEN /\ error' = [error EXCEPT !["worker"] = "overflow"]
            /\ pc' = [pc EXCEPT !["worker"] = "dead"]
            /\ UNCHANGED <<wire, writes, payload_value, byte_lane_index>>
       ELSE IF ~ser_open
       THEN /\ error' = [error EXCEPT !["worker"] = "port_closed"]
            /\ pc' = [pc EXCEPT !["worker"] = "dead"]
            /\ UNCHANGED <<wire, writes, payload_value, byte_lane_index>>
       ELSE /\ wire' = to_bytes_little(val_32)
            /\ writes' = writes + 1
            /\ payload_value' = advance_payload(payload_value)
            /\ byte_lane_index' = advance_lane(payload_value, byte_lane_index)
            /\ pc' = [pc EXCEPT !["worker"] = "loop"]
            /\ UNCHANGED error
    /\ UNCHANGED <<script, MODE, strobe_queue, total_strobe_count, stop_event, gpio,
                   ser_open, attempts, edges, missed, transient_faults, exit_status,
                   drained_after_stop, raw, ints>>

\* ser.write raises an I/O error on the open port: nothing catches it
strobe_worker_write_fails ==
    /\ pc["worker"] = "send"
    /\ ser_open
    /\ error' = [error EXCEPT !["worker"] = "io_error"]
    /\ pc' = [pc EXCEPT !["worker"] = "dead"]
    /\ UNCHANGED <<script, MODE, strobe_queue, total_strobe_count, payload_value,
                   byte_lane_index, stop_event, gpio, ser_open, wire, writes, attempts,
                   edges, missed, transient_faults, exit_status, drained_after_stop,
                   raw, ints>>

(***************************************************************************)
(* The successful write step of each program, written from its own source: *)
(* tm_test.py, and tm_test_controlled.py with MODE == 'byte0'.             *)
(***************************************************************************)
\* tm_test.py: payload_value.to_bytes(4, byteorder='little'); ser.write;
\* payload_value += 1; if payload_value > 255: payload_value = 1
tm_test_send ==
    /\ pc["worker"] = "send"
    /\ ser_open
    /\ wire' = to_bytes_little(Digits(payload_value))
    /\ writes' = writes + 1
    /\ payload_value' = (IF payload_value + 1 > 255 THEN 1 ELSE payload_value + 1)
    /\ pc' = [pc EXCEPT !["worker"] = "loop"]
    /\ UNCHANGED <<script, MODE, strobe_queue, total_strobe_count, byte_lane_index,
                   stop_event, gpio, ser_open, attempts, edges, missed,
                   transient_faults, error, exit_status, drained_after_stop, raw, ints>>

\* tm_test_controlled.py in mode byte0: val_32 = get_payload_byte0(payload_value);
\* val_32.to_bytes(4, byteorder='little'); ser.write; the same counter advance;
\* MODE == 'scan' is false, byte_lane_index is left alone
controlled_byte0_send ==
    /\ pc["worker"] = "send"
    /\ ser_open
    /\ wire' = to_bytes_little(get_payload_byte0(Digits(payload_value)))
    /\ writes' = writes + 1
    /\ payload_value' = (IF payload_value + 1 > 255 THEN 1 ELSE payload_value + 1)
    /\ pc' = [pc EXCEPT !["worker"] = "loop"]
    /\ UNCHANGED <<script, MODE, strobe_queue, total_strobe_count, byte_lane_index,
                   stop_event, gpio, ser_open, attempts, edges, missed,
                   transient_faults, error, exit_status, drained_after_stop, raw, ints>>

(***************************************************************************)
(* Supervision and shutdown by the main thread.                            *)
(***************************************************************************)
WorkerTerminated == pc["worker"] \in {"done", "dead"}

\* while worker.is_alive(): worker.join(timeout=0.5)  -- the worker has ended
join_loop_ends ==
    /\ pc["main"] = "join_loop"
    /\ WorkerTerminated
    /\ pc' = [pc EXCEPT !["main"] = "finally"]
    /\ UNCHANGED <<script, MODE, strobe_queue, total_strobe_count, payload_value,
                   byte_lane_index, stop_event, gpio, ser_open, wire, writes, attempts,
                   edges, missed, transient_faults, error, exit_status,
                   drained_after_stop, raw, ints>>

\* except KeyboardInterrupt: print; stop_event.set()
keyboard_interrupt ==
    /\ pc["main"] \in {"start_worker", "join_loop"}
    /\ stop_event' = TRUE
    /\ pc' = [pc EXCEPT !["main"] = "finally"]
    /\ UNCHANGED <<script, MODE, strobe_queue, total_strobe_count, payload_value,
                   byte_lane_index, gpio, ser_open, wire, writes, attempts, edges,
                   missed, transient_faults, error, exit_status, drained_after_stop,
                   raw, ints>>

\* Ctrl+C while the main thread is still in the startup statements, which stand
\* before the try statement: the KeyboardInterrupt is unhandled
keyboard_interrupt_startup ==
    /\ pc["main"] \in {"init_begin", "init_try", "add_event_detect"}
    /\ error' = [error EXCEPT !["main"] = "keyboard_interrupt"]
    /\ pc' = [pc EXCEPT !["main"] = "atexit"]
    /\ UNCHANGED <<script, MODE, strobe_queue, total_strobe_count, payload_value,
                   byte_lane_index, stop_event, gpio, ser_open, wire, writes, attempts,
                   edges, missed, transient_faults, exit_status, drained_after_stop,
                   raw, ints>>

\* finally: stop_event.set()
finally_stop ==
    /\ pc["main"] = "finally"
    /\ stop_event' = TRUE
    /\ pc' = [pc EXCEPT !["main"] = "remove_detect"]
    /\ UNCHANGED <<script, MODE, strobe_queue, total_strobe_count, payload_value,
                   byte_lane_index, gpio, ser_open, wire, writes, attempts, edges,
                   missed, transient_faults, error, exit_status, drained_after_stop,
                   raw, ints>>

\* GPIO.remove_event_detect(STROBE_PIN), exceptions swallowed
remove_event_detect ==
    /\ pc["main"] = "remove_detect"
    /\ gpio' = [gpio EXCEPT !.detect = FALSE]
    /\ pc' = [pc EXCEPT !["main"] = "final_join"]
    /\ UNCHANGED <<script, MODE, strobe_queue, total_strobe_count, payload_value,
                   byte_lane_index, stop_event, ser_open, wire, writes, attempts, edges,
                   missed, transient_faults, error, exit_status, drained_after_stop,
                   raw, ints>>

\* worker.join(timeout=1) returns: the worker has ended or one second has passed
\* (exceptions swallowed when the worker was never started)
join_returns == TRUE

final_join ==
    /\ pc["main"] = "final_join"
    /\ join_returns
    /\ pc' = [pc EXCEPT !["main"] = "cleanup"]
    /\ UNCHANGED <<script, MODE, strobe_queue, total_strobe_count, payload_value,
                   byte_lane_index, stop_event, gpio, ser_open, wire, writes, attempts,
                   edges, missed, transient_faults, error, exit_status,
                   drained_after_stop, raw, ints>>

\* cleanup_gpio()
final_cleanup ==
    /\ pc["main"] = "cleanup"
    /\ gpio' = cleanup_gpio(gpio)
    /\ pc' = [pc EXCEPT !["main"] = "close"]
    /\ UNCHANGED <<script, MODE, strobe_queue, total_strobe_count, payload_value,
                   byte_lane_index, stop_event, ser_open, wire, writes, attempts, edges,
                   missed, transient_faults, error, exit_status, drained_after_stop,
                   raw, ints>>

\* ser.close()
close_serial ==
    /\ pc["main"] = "close"
    /\ ser_open' = FALSE
    /\ pc' = [pc EXCEPT !["main"] = "atexit"]
    /\ UNCHANGED <<script, MODE, strobe_queue, total_strobe_count, payload_value,
                   byte_lane_index, stop_event, gpio, wire, writes, attempts, edges,
                   missed, transient_faults, error, exit_status, drained_after_stop,
                   raw, ints>>

\* the interpreter exits: the atexit hook runs cleanup_gpio, the daemon worker
\* thread is abandoned, an unhandled exception of the main thread gives status 1
process_exit ==
    /\ pc["main"] = "atexit"
    /\ gpio' = cleanup_gpio(gpio)
    /\ exit_status' = IF error["main"] = "none" THEN 0 ELSE 1
    /\ pc' = [pc EXCEPT !["main"] = "exited",
                        !["worker"] = IF pc["worker"] \in {"idle", "done", "dead"}
                                      THEN pc["worker"] ELSE "killed"]
    /\ UNCHANGED <<script, MODE, strobe_queue, total_strobe_count, payload_value,
                   byte_lane_index, stop_event, ser_open, wire, writes, attempts, edges,
                   missed, transient_faults, error, drained_after_stop, raw, ints>>

(***************************************************************************)
(* The system.                                                             *)
(***************************************************************************)
initialize_gpio == \E t \in Threads :
    \/ initialize_gpio_begin(t)
    \/ initialize_gpio_setup_ok(t)
    \/ initialize_gpio_setup_fails(t)
    \/ initialize_gpio_raise(t)

strobe_worker ==
    \/ strobe_worker_loop
    \/ strobe_worker_get
    \/ strobe_worker_empty
    \/ strobe_worker_transient
    \/ strobe_worker_raise
    \/ strobe_worker_send
    \/ strobe_worker_write_fails

\* the steps the worker thread takes by itself when it is scheduled; the faults
\* its waits and writes may raise are not among them
WorkerProgress ==
    \/ strobe_worker_loop
    \/ strobe_worker_get
    \/ strobe_worker_empty
    \/ strobe_worker_send
    \/ initialize_gpio_begin("worker")
    \/ initialize_gpio_setup_ok("worker")
    \/ initialize_gpio_setup_fails("worker")
    \/ initialize_gpio_raise("worker")

Next ==
    \/ on_strobe
    \/ missed_edge
    \/ open_serial
    \/ open_serial_fails
    \/ initialize_gpio
    \/ add_event_detect
    \/ add_event_detect_fails
    \/ start_worker
    \/ strobe_worker
    \/ join_loop_ends
    \/ keyboard_interrupt
    \/ keyboard_interrupt_startup
    \/ finally_stop
    \/ remove_event_detect
    \/ final_join
    \/ final_cleanup
    \/ close_serial
    \/ process_exit

Spec == Init /\ [][Next]_vars

\* runs of few rising edges, the worker thread scheduled fairly
LiveNext ==
    \/ (on_strobe /\ edges < MaxLiveEdges)
    \/ missed_edge
    \/ open_serial
    \/ open_serial_fails
    \/ initialize_gpio
    \/ add_event_detect
    \/ add_event_detect_fails
    \/ start_worker
    \/ strobe_worker
    \/ join_loop_ends
    \/ keyboard_interrupt
    \/ keyboard_interrupt_startup
    \/ finally_stop
    \/ remove_event_detect
    \/ final_join
    \/ final_cleanup
    \/ close_serial
    \/ process_exit

FairSpec == Init /\ [][LiveNext]_vars /\ WF_vars(WorkerProgress)

(***************************************************************************)
(* The payload computation on its own: the worker holds a consumed event   *)
(* and is about to build and write the frame, for every counter value and  *)
(* byte lane the mode can have at that point (in scan mode the counter has *)
(* run through 255 values per lane, in the other modes the lane stays 0).  *)
(***************************************************************************)
PayloadInit ==
    /\ script \in Scripts
    /\ MODE \in (IF script = "tm_test" THEN {"none"} ELSE Modes)
    /\ payload_value \in 1..255
    /\ byte_lane_index \in (IF MODE = "scan" THEN 0..3 ELSE {0})
    /\ writes = byte_lane_index * 255 + payload_value - 1
    /\ total_strobe_count = writes + 1
    /\ edges = total_strobe_count
    /\ strobe_queue = <<>>
    /\ wire = NoFrame
    /\ stop_event = FALSE
    /\ gpio = [mode |-> TRUE, setup |-> TRUE, detect |-> TRUE]
    /\ ser_open = TRUE
    /\ pc = [t \in Threads |-> IF t = "main" THEN "join_loop" ELSE "send"]
    /\ attempts = [t \in Threads |-> 0]
    /\ missed = 0
    /\ transient_faults = 0
    /\ error = [t \in Threads |-> "none"]
    /\ exit_status = -1
    /\ drained_after_stop = 0
    /\ raw = <<>>
    /\ ints = NoInts

PayloadSpec == PayloadInit /\ [][strobe_worker_send]_vars

(***************************************************************************)
(* uart_reader.py: the read loop. The reader is a program of its own; the  *)
(* engine does not move while it is looked at.                             *)
(***************************************************************************)
\* raw = ser.read(READ_CHUNK); if not raw: continue
reader_read ==
    /\ raw = <<>> \/ ints # NoInts
    /\ raw' \in ReadBuffers
    /\ ints' = NoInts
    /\ UNCHANGED <<script, MODE, strobe_queue, total_strobe_count, payload_value,
                   byte_lane_index, stop_event, gpio, ser_open, wire, writes, pc,
                   attempts, edges, missed, transient_faults, error, exit_status,
                   drained_after_stop>>

\* display_all(raw, packet_no): ints = decode_ints(data)
display_all ==
    /\ raw # <<>>
    /\ ints = NoInts
    /\ ints' = decode_ints(raw)
    /\ UNCHANGED <<script, MODE, strobe_queue, total_strobe_count, payload_value,
                   byte_lane_index, stop_event, gpio, ser_open, wire, writes, pc,
                   attempts, edges, missed, transient_faults, error, exit_status,
                   drained_after_stop, raw>>

ReaderNext == reader_read \/ display_all

ReaderSpec == Init /\ [][ReaderNext]_vars

(***************************************************************************)
(* Properties.                                                             *)
(***************************************************************************)
\* the worker writes a frame and advances the counter in this step
Sends == writes' = writes + 1
\* the worker dequeues an event in this step
Dequeues == strobe_queue # <<>> /\ strobe_queue' = Tail(strobe_queue)
\* the counter wraps in this step
Wraps == payload_value = 255 /\ payload_value' = 1

\* C1: in both programs the counter payload_value is always in 1..255, and the
\* worker step that sends while the counter is 255 leaves it at 1.
C1_CounterRange ==
    /\ [](payload_value \in 1..255)
    /\ [][(Sends /\ payload_value = 255) => payload_value' = 1]_vars

C1_Witness == payload_value = 1 /\ writes = 255

\* C2: total_strobe_count starts at 0, grows by exactly 1 in every step that
\* dequeues an event and is unchanged by every other step (a counter wrap, a
\* recovery from a transient fault included).
C2_TotalCountsDequeued ==
    /\ total_strobe_count = 0
    /\ [][IF Dequeues THEN total_strobe_count' = total_strobe_count + 1
                      ELSE total_strobe_count' = total_strobe_count]_vars

C2_Witness ==
    /\ transient_faults = 1
    /\ pc["worker"] = "loop"
    /\ total_strobe_count = 257
    /\ payload_value = 3

\* C3: in scan mode byte_lane_index changes exactly in the step in which the
\* counter wraps from 255 to 1, to (byte_lane_index + 1) mod 4; in every other
\* step and in the other modes it is unchanged, and outside scan mode it is 0.
C3_LaneAdvancesOnWrap ==
    /\ [](MODE # "scan" => byte_lane_index = 0)
    /\ [][IF MODE = "scan" /\ Wraps
          THEN byte_lane_index' = (byte_lane_index + 1) % 4
          ELSE byte_lane_index' = byte_lane_index]_vars

C3_Witness == MODE = "scan" /\ writes = 1020 /\ byte_lane_index = 0

\* the frame of the n-th event in scan mode: counter ((n-1) mod 255) + 1 in
\* byte lane ((n-1) div 255) mod 4, the other lanes 0
ScanFrame(n) ==
    [i \in 1..4 |-> IF i = (((n - 1) \div 255) % 4) + 1 THEN ((n - 1) % 255) + 1 ELSE 0]

\* C4: in scan mode the n-th consumed event is the n-th frame written, and that
\* frame carries counter ((n-1) mod 255) + 1 in lane ((n-1) div 255) mod 4.
C4_ScanSequence ==
    MODE = "scan" =>
        /\ total_strobe_count - writes \in {0, 1}
        /\ writes > 0 => wire = ScanFrame(writes)

C4_Witness == MODE = "scan" /\ writes = 256 /\ wire = <<0, 1, 0, 0>>

\* the worker thread is inside initialize_gpio
InRecovery == pc["worker"] \in {"init_begin", "init_try"}
\* the worker's wait raises the transient fault in this step
FaultRaised == pc["worker"] = "get" /\ transient_faults' = transient_faults + 1
\* the worker thread runs its loop (initialize_gpio included)
WorkerRunning == pc["worker"] \in {"loop", "get", "send", "init_begin", "init_try"}
CounterState == <<payload_value, byte_lane_index, total_strobe_count, wire, writes>>

\* C5 as stated: from the step in which the wait raises the transient fault to
\* the end of the re-run setup, the counter, the lane, the total and the sink are
\* unchanged, the worker enters initialize_gpio and goes back to its loop, and it
\* does not terminate.
C5_FaultNeverEndsWorker ==
    [][(FaultRaised => pc'["worker"] = "init_begin")
       /\ ((FaultRaised \/ InRecovery) =>
              /\ CounterState' = CounterState
              /\ pc'["worker"] \in {"init_begin", "init_try", "loop", "killed"})]_vars

\* C5 (amended): as above, except that the worker thread ends with the fatal
\* setup error when all 20 attempts of the re-run setup fail.
C5_FaultConsumesNoStep ==
    [][(FaultRaised => pc'["worker"] = "init_begin")
       /\ ((FaultRaised \/ InRecovery) =>
              /\ CounterState' = CounterState
              /\ pc'["worker"] \in {"init_begin", "init_try", "loop", "killed", "dead"}
              /\ pc'["worker"] = "dead" =>
                    /\ attempts["worker"] = retries
                    /\ error'["worker"] = "setup_exhausted")]_vars

C5_Witness ==
    /\ transient_faults = 1
    /\ pc["worker"] = "loop"
    /\ gpio.setup
    /\ total_strobe_count = 9
    /\ writes = 9
    /\ payload_value = 10

\* C6: after a transient fault and the re-initialization that follows it, every
\* rising edge still invokes the callback: none is missed while the engine runs.
C6_EdgesCapturedAfterRecovery == transient_faults > 0 => missed = 0

\* C7: the serial port is closed only after the worker thread has ended, and the
\* worker never writes to the closed port.
C7_SinkClosedAfterWorkerEnds ==
    /\ (pc["main"] = "atexit" /\ ~ser_open) => pc["worker"] \in {"idle", "done", "dead"}
    /\ error["worker"] # "port_closed"

\* C8 as stated: while stop_event is set the worker dequeues no event.
C8_NothingConsumedAfterStop == drained_after_stop = 0

\* C8 (amended): after stop_event is set the worker dequeues at most one more
\* event, the one returned by the wait it was in; the rest stays in the queue.
C8_AtMostOneAfterStop == drained_after_stop <= 1

C8_Witness ==
    /\ drained_after_stop = 1
    /\ pc["worker"] = "done"
    /\ strobe_queue # <<>>

\* C9: the worker thread, scheduled fairly, ends its loop after stop_event is
\* set, whether or not edges keep arriving: no wait of it is unbounded.
C9_WorkerTerminates == stop_event ~> ~WorkerRunning

C9_Witness == stop_event /\ pc["worker"] = "done" /\ strobe_queue # <<>>

\* thread t calls GPIO.setup in this step and the call fails / succeeds
SetupFails(t) == pc[t] = "init_try" /\ attempts'[t] = attempts[t] + 1
SetupSucceeds(t) == pc[t] = "init_try" /\ pc'[t] = InitReturn(t)
\* initialize_gpio raises the fatal setup error in thread t in this step
SetupRaises(t) == pc[t] = "init_try" /\ error'[t] = "setup_exhausted"

\* C10: initialize_gpio calls GPIO.setup at most 20 times, returns at the first
\* call that succeeds, re-initializes the handle (cleanup, setmode) after every
\* call that fails, and raises exactly when 20 calls have failed (unless the
\* thread is interrupted or abandoned first).
C10_BoundedRetries ==
    /\ [](\A t \in Threads : attempts[t] \in 0..20)
    /\ [][\A t \in Threads :
            /\ (SetupFails(t) \/ SetupSucceeds(t)) => attempts[t] < 20
            /\ SetupSucceeds(t) => (gpio'.setup /\ attempts'[t] = 0)
            /\ SetupFails(t) =>
                  gpio' = [mode |-> TRUE, setup |-> FALSE, detect |-> FALSE]
            /\ SetupRaises(t) => attempts[t] = 20
            /\ (pc[t] = "init_try" /\ attempts[t] = 20 /\ pc'[t] # pc[t]) =>
                  (SetupRaises(t) \/ pc'[t] = "killed"
                      \/ error'[t] = "keyboard_interrupt")]_vars

C10_Witness == error["worker"] = "setup_exhausted" /\ attempts["worker"] = 20

(***************************************************************************)
(* Faults that end the worker.                                             *)
(***************************************************************************)
\* C11 Setup exhaustion is the only fault that ends the engine: the worker
\* thread is never ended by an I/O error of the sink write or by a RuntimeError
\* of the queue wait other than the 'channel not set up' one; after such a
\* fault it still runs.
C11_OnlySetupExhaustionEndsWorker ==
    /\ error["worker"] \in {"none", "setup_exhausted"}
    /\ pc["worker"] = "dead" => error["worker"] = "setup_exhausted"

(***************************************************************************)
(* Exit paths of the main thread.                                          *)
(***************************************************************************)
Exited == pc["main"] = "exited"
StartupFailed == error["main"] \in {"setup_exhausted", "add_event_detect"}
Released == gpio = GpioClean /\ ~ser_open

\* C12 When startup fails after the serial port was opened (the first
\* initialize_gpio exhausts its retries, or add_event_detect fails), the
\* process ends with GPIO cleaned up and the serial port closed.
C12_StartupFailureReleases == (Exited /\ StartupFailed) => Released

SetupExhausted == \E t \in Threads : error[t] = "setup_exhausted"

\* C13 Exit status: a run whose setup of the edge source exhausted its retry
\* budget, at startup or in the worker's recovery, ends with a non-zero status;
\* a run ended by KeyboardInterrupt (no exception leaves the main thread) ends
\* with status 0 after the full teardown.
C13_ExitStatus ==
    Exited =>
        /\ SetupExhausted => exit_status # 0
        /\ (~SetupExhausted /\ error["main"] = "none") =>
               (exit_status = 0 /\ Released)

StopRequested == stop_event \/ error["main"] = "keyboard_interrupt"

\* C14 Shutdown is idempotent on every exit path: a run in which stop was
\* requested, once or several times (KeyboardInterrupt handler, finally block,
\* atexit hook) or before the worker thread was started, ends with edge
\* detection removed, GPIO cleaned up and the serial port closed, and no
\* exception leaves the main thread.
C14_ShutdownIdempotent ==
    (Exited /\ StopRequested) =>
        (Released /\ error["main"] = "none" /\ exit_status = 0)

(***************************************************************************)
(* Payload values and frames.                                              *)
(***************************************************************************)
\* the integer c * 256^l as digits: l zero bytes below the byte c
ShiftedCounter(c, l) == [i \in 1..(l + 1) |-> IF i = l + 1 THEN c ELSE 0]

\* C15 For every counter c in 1..255 and lane l in 0..3 the scan payload is
\* c << (8*l): the frame built from it has c in byte lane l and 0 in the other
\* three lanes.
C15_ScanPayload ==
    /\ [](MODE = "scan" =>
            get_payload_scan(Digits(payload_value), byte_lane_index)
                = ShiftedCounter(payload_value, byte_lane_index))
    /\ [][(MODE = "scan" /\ Sends) =>
            \A i \in 0..3 :
                wire'[i + 1] = IF i = byte_lane_index THEN payload_value ELSE 0]_vars

C15_Witness ==
    /\ MODE = "scan"
    /\ writes = 1020
    /\ wire = <<0, 0, 0, 255>>

\* C16 In mode all the payload of counter c is c | c<<8 | c<<16 | c<<24, so
\* the four bytes of the frame all equal c, for every c in 1..255; the first
\* event after startup is written as 01 01 01 01 with total_strobe_count 1.
C16_AllPayload ==
    /\ [](MODE = "all" =>
            get_payload_all(Digits(payload_value)) = [i \in 1..4 |-> payload_value])
    /\ [][(MODE = "all" /\ Sends) =>
            /\ wire' = <<payload_value, payload_value, payload_value, payload_value>>
            /\ writes = 0 => (wire' = <<1, 1, 1, 1>> /\ total_strobe_count' = 1)]_vars

C16_Witness ==
    /\ MODE = "all"
    /\ writes = 255
    /\ wire = <<255, 255, 255, 255>>
    /\ payload_value = 1

\* byte i of a Python integer v below 2^31: (v >> 8*i) mod 256
ByteOf(v, i) == (v \div (256 ^ i)) % 256

\* the worker thread stands between two events (nothing consumed is unwritten)
BetweenEvents == pc["worker"] \in {"loop", "get", "done", "init_begin", "init_try"}

\* C17 Every consumed event causes exactly one write, of exactly 4 bytes,
\* least significant byte first: byte i of the frame is (payload >> 8*i) mod 256,
\* and in byte0 mode and in tm_test.py the frame of counter c is [c, 0, 0, 0].
C17_OneFramePerEvent ==
    /\ [](total_strobe_count - writes \in {0, 1})
    /\ [](BetweenEvents => writes = total_strobe_count)
    /\ [][writes' # writes =>
            /\ Sends
            /\ pc["worker"] = "send"
            /\ total_strobe_count = writes + 1
            /\ total_strobe_count' = total_strobe_count
            /\ Len(wire') = 4
            /\ (script = "tm_test" \/ MODE = "byte0") =>
                   /\ wire' = <<payload_value, 0, 0, 0>>
                   /\ \A i \in 0..3 : wire'[i + 1] = ByteOf(payload_value, i)
            /\ (MODE = "scan" /\ byte_lane_index < 3) =>
                   \A i \in 0..3 :
                       wire'[i + 1] =
                           ByteOf(payload_value * (256 ^ byte_lane_index), i)]_vars

C17_Witness ==
    /\ script = "tm_test"
    /\ writes = 255
    /\ total_strobe_count = 255
    /\ wire = <<255, 0, 0, 0>>

(***************************************************************************)
(* uart_reader.py.                                                         *)
(***************************************************************************)
\* C18 decode_ints returns an integer interpretation only for the width that
\* fits the buffer exactly: for a buffer of n bytes a key uintW or intW (LE or
\* BE) is present only when W / 8 = n.
C18_OnlyExactWidth == \A k \in DOMAIN ints : k[2] = Len(raw) * 8

(***************************************************************************)
(* The queue between the callback and the worker.                          *)
(***************************************************************************)
\* C19 Event conservation: in every reachable state the number of edges the
\* callback has enqueued equals total_strobe_count plus the queue length; the
\* queue holds exactly the enqueued events not yet consumed, in order, so no
\* event is lost, duplicated or consumed twice; the callback only enqueues.
C19_EventConservation ==
    /\ [](edges = total_strobe_count + Len(strobe_queue))
    /\ [](\A i \in 1..Len(strobe_queue) : strobe_queue[i] = total_strobe_count + i)
    /\ [][edges' # edges =>
            /\ edges' = edges + 1
            /\ strobe_queue' = Append(strobe_queue, edges')
            /\ total_strobe_count' = total_strobe_count
            /\ pc' = pc]_vars
    /\ [][total_strobe_count' # total_strobe_count =>
            /\ strobe_queue # <<>>
            /\ Head(strobe_queue) = total_strobe_count'
            /\ strobe_queue' = Tail(strobe_queue)
            /\ edges' = edges]_vars

C19_Witness ==
    /\ edges = 300
    /\ total_strobe_count = 298
    /\ Len(strobe_queue) = 2
    /\ transient_faults = 0

(***************************************************************************)
(* tm_test.py and tm_test_controlled.py in mode byte0.                     *)
(***************************************************************************)
RunsTmTest == script = "tm_test"
RunsByte0 == script = "tm_test_controlled" /\ MODE = "byte0"

\* C20 tm_test_controlled.py in mode byte0 is equivalent to tm_test.py: every
\* write step of either program is a write step of the other from the same
\* state (the steps of the edge source, of the faults and of the shutdown are
\* the same code), and in both the counter and the frame are the same
\* function of the number of frames written, with total_strobe_count ahead by
\* at most the event in hand.
C20_Byte0EquivalentToTmTest ==
    /\ [][(RunsByte0 /\ Sends) => tm_test_send]_vars
    /\ [][(RunsTmTest /\ Sends) => controlled_byte0_send]_vars
    /\ []((RunsTmTest \/ RunsByte0) =>
            /\ payload_value = (writes % 255) + 1
            /\ byte_lane_index = 0
            /\ total_strobe_count \in {writes, writes + 1}
            /\ writes > 0 => wire = <<((writes - 1) % 255) + 1, 0, 0, 0>>)

C20_Witness ==
    /\ RunsByte0
    /\ transient_faults = 1
    /\ writes = 256
    /\ payload_value = 2
    /\ wire = <<1, 0, 0, 0>>

====
